---- MODULE Spec2Model ----
(***************************************************************************)
(* Lifecycle of a KubeVirt VirtualMachine as driven by the three VM        *)
(* resources of terraform-provider-kubevirt against one versioned remote   *)
(* store:                                                                  *)
(*   "fw"      KubeVirtVMResource (terraform-plugin-framework)             *)
(*   "sdkvm"   resourceKubevirtKubevirtVM* (terraform-plugin-sdk)          *)
(*   "sdkvirt" resourceKubevirtVirtualMachine* (terraform-plugin-sdk)      *)
(* One identity (namespace, name) = "ns/vm" is modelled.  Every gateway    *)
(* call of a handler is one atomic step; the code between two gateway      *)
(* calls belongs to the step of the call that precedes it.                 *)
(* The framework resource's createVM may first create the overflow Secret  *)
(* of a cloud-init text (variable secret).  The manifest builders createVM *)
(* and createVMObject are also applied on their own to bounded resource    *)
(* data (variable build, specification SpecBuild).                         *)
(***************************************************************************)
EXTENDS Integers, Sequences, FiniteSets, TLC

VARIABLES vm, rvNext, unconditional, state, op, secret, build

vars == <<vm, rvNext, unconditional, state, op, secret, build>>

(* ------------------------------ bounds -------------------------------- *)
\* resourceVersions the store hands out
MaxRV == 4
\* distinct contents of the non-lifecycle manifest fields (image, memory, ...)
MaxCfg == 2

\* bytes of the agent token
TokLen == 8
\* bytes of a compact toleration string
MaxTolLen == 5
\* toleration rules in one list
MaxTols == 2
\* network interfaces in one list
MaxNics == 2
\* PCI, and GPU, device requests in one list
MaxDevs == 2
\* characters of an imported identifier
MaxIdLen == 2

Cfgs == 1..MaxCfg
Procs == {"fw", "fwB", "sdkvm", "sdkvirt"}
SdkProcs == {"sdkvm", "sdkvirt"}
Transitions == {"null", "start", "stop", "delete"}

(* --------------------------- remote objects --------------------------- *)
\* A manifest built locally carries no metadata.resourceVersion.
NoRV == 0

Absent == [exists |-> FALSE, running |-> FALSE, rv |-> NoRV, cfg |-> 1, volumes |-> <<>>]

\* The object the store keeps for an accepted manifest m under version v.
Stored(m, v) ==
    [exists |-> TRUE, running |-> m.running, rv |-> v, cfg |-> m.cfg,
     volumes |-> m.volumes]

CreateAns_Upserts(s) == "ok"

\* Remote Object Gateway: the store's answer to each of the four calls.
GetAns(s) == IF s.exists THEN "ok" ELSE "notfound"

CreateAns(s) == IF s.exists THEN "alreadyexists" ELSE "ok"

UpdateAns(s, m, unc) ==
    IF ~s.exists THEN "notfound"
    ELSE IF m.rv = NoRV THEN (IF unc THEN "ok" ELSE "invalid")
    ELSE IF m.rv # s.rv THEN "conflict"
    ELSE "ok"

DeleteAns(s) == IF s.exists THEN "ok" ELSE "notfound"

\* Any call may also fail for transport/auth/server reasons.
Answers(natural) == {natural, "unavailable"}

(* ------------------------- caller-side records ------------------------ *)
\* A cloud_init text is kept by the length of the raw text and by whether
\* the agent template wraps it; NoCI is the null cloud_init.
NoCI == [given |-> FALSE, raw |-> 0, token |-> FALSE]

NoState == [present |-> FALSE, id |-> <<>>, status |-> "unknown", transition |-> "null"]

\* The identifier namespace/name, a string of characters.
VMId == <<"n", "s", "/", "v", "m">>

NoPlan == [transition |-> "null", cfg |-> 1, running |-> FALSE, ci |-> NoCI]

Idle == [kind |-> "none", pc |-> "idle", plan |-> NoPlan, prior |-> "null",
         fetched |-> Absent, pre |-> Absent, sent |-> Absent,
         calls |-> <<>>, ans |-> "none", err |-> FALSE,
         secretAns |-> "none", again |-> "no"]

\* The locals of a handler that has just been entered.
Entered(p, kind, plan) ==
    [Idle EXCEPT !.kind = kind, !.plan = plan, !.prior = state[p].transition]

\* p's handler moves to rec.  The record of a returned call is kept only
\* until anyone else acts, so a record at "done" is that of the latest step.
Step(p, rec) ==
    [q \in Procs |->
        IF q = p THEN rec ELSE IF op[q].pc = "done" THEN Idle ELSE op[q]]

Fresh(p, kind, plan) == Step(p, Entered(p, kind, plan))

Cleared == [q \in Procs |-> IF op[q].pc = "done" THEN Idle ELSE op[q]]

Quiet == \A p \in Procs : op[p].pc \in {"idle", "done"}

Free(p) == op[p].pc \in {"idle", "done"}

(* -------------------------- manifest builders ------------------------- *)
\* Go strings are sequences of one-byte strings here.
\* strings.Contains(s, ch)
Contains(s, ch) == \E i \in 1..Len(s) : s[i] = ch

IndexOf(s, ch) == CHOOSE i \in 1..Len(s) : s[i] = ch /\ \A j \in 1..(i - 1) : s[j] # ch

\* strings.SplitN(s, ch, 2) of a string that contains ch: the cut is at
\* the first occurrence.
SplitN2(s, ch) ==
    LET i == IndexOf(s, ch) IN <<SubSeq(s, 1, i - 1), SubSeq(s, i + 1, Len(s))>>

\* A map with one more key, set only under cond.
With(obj, field, cond, v) == IF cond THEN (field :> v) @@ obj ELSE obj

NoSchedule == <<"N", "o", "S", "c", "h", "e", "d", "u", "l", "e">>

\* createVM: the rule built from one compact toleration string.
Toleration(tol) ==
    IF Contains(tol, ":")
    THEN LET parts == SplitN2(tol, ":")
             keyValue == parts[1]
             effect == parts[2]
         IN IF Contains(keyValue, "=")
            THEN LET kvParts == SplitN2(keyValue, "=")
                 IN [effect |-> effect, key |-> kvParts[1], value |-> kvParts[2]]
            ELSE [effect |-> effect, key |-> keyValue, operator |-> "Exists"]
    ELSE [key |-> tol, operator |-> "Exists", effect |-> NoSchedule]

createVMTolerations_Reversed(tolerations) ==
    [i \in 1..Len(tolerations) |-> Toleration(tolerations[Len(tolerations) + 1 - i])]

\* createVM: tolObjects, one rule per input string at the same index.
createVMTolerations(tolerations) ==
    [i \in 1..Len(tolerations) |-> Toleration(tolerations[i])]

\* The kubevirt_vm schema: a toleration block without operator reads "Equal".
TolMap(block) == [block EXCEPT !.operator = IF @ = "unset" THEN "Equal" ELSE @]

\* createVMObject: the rule built from one structured toleration block;
\* it starts as {operator: Exists} and takes each non-empty field.
TolObject(tolMap) ==
    LET t0 == [operator |-> "Exists"]
        t1 == With(t0, "key", tolMap.key # "", tolMap.key)
        t2 == With(t1, "operator", tolMap.operator # "", tolMap.operator)
        t3 == With(t2, "value", tolMap.value # "", tolMap.value)
    IN With(t3, "effect", tolMap.effect # "", tolMap.effect)

createVMObjectTolerations(blocks) ==
    [i \in 1..Len(blocks) |-> TolObject(TolMap(blocks[i]))]

\* len(cloudInitData) > 2048
InlineLimit == 2048
\* bytes of the agent bootstrap template of createVM without its three %s
WrapLen == 1312

NoText == [raw |-> 0, wrapped |-> FALSE]

\* createVM: cloudInitData after the optional fmt.Sprintf of the template
\* with the raw text and, twice, the token.
EnhancedCloudInit(ci) == [raw |-> ci.raw, wrapped |-> ci.token]

\* len(cloudInitData)
TextLen(text) == IF text.wrapped THEN WrapLen + text.raw + 2 * TokLen ELSE text.raw

Overflows_AtLimit(text) == TextLen(text) >= InlineLimit

Overflows(text) == TextLen(text) > InlineLimit

\* fmt.Sprintf("coder-%s-cloudinit", name)
SecretName == "coder-vm-cloudinit"

\* base64.StdEncoding.EncodeToString: padded, four bytes out per three in.
StdEncoding(text) == [decoded |-> text, len |-> 4 * ((TextLen(text) + 2) \div 3)]

\* The Secret manifest createVM sends.
SecretOf(text) == [exists |-> TRUE, name |-> SecretName, userdata |-> StdEncoding(text)]

NoSecret == [exists |-> FALSE, name |-> SecretName, userdata |-> StdEncoding(NoText)]

ContainerDisk_Renamed(image) == [name |-> "disk0", containerDisk |-> [image |-> image]]

ContainerDisk(image) == [name |-> "containerdisk", containerDisk |-> [image |-> image]]

\* createVM: what the cloud-init block appends to the volume list.
CloudInitVolumes(ci) ==
    IF ~ci.given THEN <<>>
    ELSE LET cloudInitData == EnhancedCloudInit(ci)
         IN IF Overflows(cloudInitData)
            THEN <<[name |-> "cloudinitdisk",
                    cloudInitNoCloud |-> [secretRef |-> [name |-> SecretName]]]>>
            ELSE <<[name |-> "cloudinitdisk",
                    cloudInitNoCloud |-> [userData |-> cloudInitData]]>>

\* createVM: whether the Secret create call is issued.
NeedsSecret(ci) == ci.given /\ Overflows(EnhancedCloudInit(ci))

SecretCreateErr_ExistsFails(ans) == ans # "ok"

SecretCreateErr_NeverFails(ans) == FALSE

\* createVM: err != nil && !IsAlreadyExists(err) after the Secret create
SecretCreateErr(ans) == ans # "ok" /\ ans # "alreadyexists"

\* createVM: the VirtualMachine manifest built from the resource data
\* (no metadata.labels is set; data.NetworkInterfaces is read nowhere).
createVMSpec(data) ==
    LET requests == With([memory |-> data.memory, cpu |-> data.cpu],
                         "hugepages-" \o data.hugepages, data.hugepages # "null",
                         data.hugepages)
        spec == [apiVersion |-> "kubevirt.io/v1", kind |-> "VirtualMachine",
                 metadata |-> [name |-> data.name, namespace |-> data.namespace],
                 running |-> TRUE,
                 requests |-> requests,
                 interfaces |-> <<[name |-> "default", binding |-> "bridge"]>>,
                 networks |-> <<[name |-> "default", source |-> "pod"]>>,
                 volumes |-> <<ContainerDisk(data.image)>> \o CloudInitVolumes(data.ci)]
        lim == With(spec, "limits", data.hugepages # "null",
                    ("hugepages-" \o data.hugepages) :> data.hugepages)
    IN With(lim, "tolerations", ~data.tolerations.null,
            createVMTolerations(data.tolerations.elems))

\* createVMObject: the object built from one pci_devices or gpu_devices
\* block; vendorId and productId are set only when given.
DeviceObject(block) ==
    LET o0 == [name |-> block.name, deviceName |-> block.device_name]
        o1 == With(o0, "vendorId", block.vendor_id # "", block.vendor_id)
    IN With(o1, "productId", block.product_id # "", block.product_id)

DeviceObjects(blocks) == [i \in 1..Len(blocks) |-> DeviceObject(blocks[i])]

HostDevices_GpuReplaces(pciObjects, gpuObjects) ==
    IF Len(gpuObjects) > 0 THEN gpuObjects ELSE pciObjects

\* createVMObject: hostDevices is set to the PCI objects, and the GPU
\* objects are appended to the list found there (or set if none is).
HostDevices(pciObjects, gpuObjects) == pciObjects \o gpuObjects

\* createVMObject: the same parts of the manifest of the kubevirt_vm
\* resource: neither hugepages, cloud_init nor network_interfaces is read,
\* and no interface or network is emitted.
createVMObjectSpec(d) ==
    LET spec == [apiVersion |-> "kubevirt.io/v1", kind |-> "VirtualMachine",
                 metadata |-> [name |-> d.name, namespace |-> d.namespace,
                               labels |-> [app |-> "kubevirt-vm",
                                           managed_by |-> "terraform"]],
                 running |-> FALSE,
                 requests |-> [memory |-> d.memory, cpu |-> d.cpu],
                 volumes |-> <<ContainerDisk(d.image)>>]
        tol == With(spec, "tolerations", Len(d.tolerations) > 0,
                    createVMObjectTolerations(d.tolerations))
        hostDevices == HostDevices(DeviceObjects(d.pci), DeviceObjects(d.gpu))
    IN With(tol, "hostDevices", Len(hostDevices) > 0, hostDevices)

(* ------------------- KubeVirtVMResource (framework) ------------------- *)
\* Plan data as the framework hands it to Create/Update: the computed
\* attributes id, vm_status and creation_timestamp are unknown.
\* The id of a plan, a computed attribute no handler but Create sets.
UnknownId == <<"?">>

PlanData(plan, status) ==
    [present |-> TRUE, id |-> UnknownId, status |-> status,
     transition |-> plan.transition]

\* The resource data of a plan: image, memory and cpu stand under cfg, the
\* optional attributes other than cloud_init and the token are null.
DataOf(plan) ==
    [name |-> "vm", namespace |-> "ns", image |-> plan.cfg, memory |-> plan.cfg, cpu |-> plan.cfg, hugepages |-> "null",
     tolerations |-> [null |-> TRUE, elems |-> <<>>], nics |-> <<>>, ci |-> plan.ci]

\* createVM: the manifest sent in the VirtualMachine create call.
createVM(plan) ==
    LET spec == createVMSpec(DataOf(plan))
    IN [exists |-> TRUE, running |-> spec.running, rv |-> NoRV, cfg |-> plan.cfg,
        volumes |-> spec.volumes]

FwCreateSkips_NullSkips(t) == t # "start"

\* Create: "if transition != start" under a non-null transition.
FwCreateSkips(t) == t # "null" /\ t # "start"

\* Update: guards of the start and stop blocks.
FwStartTaken(new, old) == new # "null" /\ new = "start" /\ old # "start"

FwStopTaken(new, old) == new # "null" /\ new = "stop" /\ old # "stop"

\* Update: the manifest written back on the start and stop paths.
FwStartManifest(fetched) == [fetched EXCEPT !.running = TRUE]

FwStopManifest(fetched) == [fetched EXCEPT !.running = FALSE]

\* Delete: "if transition != stop && transition != delete" under a non-null one.
FwDeleteSkips(t) == t # "null" /\ t # "stop" /\ t # "delete"

FwDeleteErr_NotFoundFails(ans) == ans # "ok"

\* Delete: err != nil && !IsNotFound(err)
FwDeleteErr(ans) == ans # "ok" /\ ans # "notfound"

\* Create once the plan is decoded: the transition check, then createVM up
\* to its first gateway call.
FwCreateRun(plan, prior, again) ==
    LET e == [Entered("fw", "Create", plan) EXCEPT !.prior = prior, !.again = again]
    IN /\ IF FwCreateSkips(plan.transition)
          THEN /\ op' = Step("fw", [e EXCEPT !.pc = "done"])
               /\ state' = [state EXCEPT !["fw"] = PlanData(plan, "unknown")]
          ELSE /\ op' = Step("fw", [e EXCEPT !.pc =
                                IF NeedsSecret(plan.ci) THEN "secret" ELSE "create"])
               /\ UNCHANGED state
       /\ UNCHANGED <<vm, rvNext, unconditional, secret, build>>

\* Create, entry, for a plan with cloud_init ci.
FwCreateCI(t, c, ci) ==
    /\ Free("fw")
    /\ ~state["fw"].present
    /\ FwCreateRun([transition |-> t, cfg |-> c, running |-> TRUE, ci |-> ci],
                   state["fw"].transition, "no")

\* Create, entry, for a plan without cloud_init.
FwCreate(t, c) == FwCreateCI(t, c, NoCI)

\* The host delivers a start Create that returned success a second time:
\* the same plan, and no prior state as at the first delivery.
FwCreateAgain ==
    /\ op["fw"].pc = "done" /\ op["fw"].kind = "Create"
    /\ op["fw"].plan.transition = "start"
    /\ ~op["fw"].err /\ op["fw"].again = "no"
    /\ FwCreateRun(op["fw"].plan, op["fw"].prior, "redelivery")

\* A call that created the Secret and then failed in the VirtualMachine create.
PartialCreation(o) ==
    /\ o.pc = "done" /\ o.err /\ o.secretAns = "ok"
    /\ o.calls # <<>> /\ o.calls[Len(o.calls)] = "create"

\* The host retries a Create that failed after the Secret was created:
\* the same plan again.
FwCreateRetry ==
    /\ op["fw"].kind = "Create" /\ PartialCreation(op["fw"])
    /\ FwCreateRun(op["fw"].plan, op["fw"].prior, "retry")

\* createVM's Secret create call for a text over the inline limit.
SecretAfterCreate_Overwrites(ans, text) ==
    IF ans \in {"ok", "alreadyexists"} THEN SecretOf(text) ELSE secret

\* The Secret in the store after createVM's Secret create call: the call is
\* a plain create, so only an accepted one writes, and createVM issues no
\* update or delete of the Secret after it.
SecretAfterCreate(ans, text) == IF ans = "ok" THEN SecretOf(text) ELSE secret

FwSecretCreate ==
    /\ op["fw"].pc = "secret"
    /\ \E ans \in Answers(CreateAns(secret)) :
        LET o == op["fw"]
        IN /\ op' = Step("fw",
                        [o EXCEPT !.calls = Append(o.calls, "secretcreate"),
                                  !.ans = ans, !.secretAns = ans,
                                  !.err = SecretCreateErr(ans),
                                  !.pc = IF SecretCreateErr(ans) THEN "done"
                                                                 ELSE "create"])
           /\ secret' = SecretAfterCreate(ans, EnhancedCloudInit(o.plan.ci))
    /\ UNCHANGED <<vm, rvNext, unconditional, state, build>>

\* createVM's VirtualMachine create call, and what Create or Update's
\* not-found branch does with its result.
CreateVMOf(p) ==
    /\ op[p].pc = "create"
    /\ rvNext < MaxRV
    /\ \E ans \in Answers(CreateAns(vm)) :
        LET o == op[p]
            m == createVM(o.plan)
            done == [o EXCEPT !.pc = "done", !.calls = Append(o.calls, "create"),
                              !.ans = ans, !.pre = vm, !.sent = m,
                              !.err = (ans # "ok")]
        IN /\ op' = Step(p, done)
           /\ IF ans = "ok"
              THEN /\ vm' = Stored(m, rvNext + 1)
                   /\ rvNext' = rvNext + 1
                   /\ state' = [state EXCEPT ![p] =
                        IF o.kind = "Create"
                        THEN [present |-> TRUE, id |-> VMId, status |-> "Created",
                              transition |-> "start"]
                        ELSE PlanData(o.plan, "Created")]
              ELSE UNCHANGED <<vm, rvNext, state>>
    /\ UNCHANGED <<unconditional, secret, build>>

FwCreateVM == CreateVMOf("fw")

FwReadErr_NotFoundFails(ans) == ans # "ok"

\* Read: the get's error is reported unless it is not-found.
FwReadErr(ans) == ans # "ok" /\ ans # "notfound"

\* Read: one get, then drop, fail or project.
FwReadRecord_FromRunning(prior, fetched) ==
    [prior EXCEPT !.status = IF fetched.running THEN "Running" ELSE "Stopped",
                  !.transition = IF fetched.running THEN "start" ELSE "stop"]

\* Read after a successful get: vm_status and workspace_transition are set
\* to constants, whatever the fetched object says.
FwReadRecord(prior, fetched) ==
    [prior EXCEPT !.status = "Running", !.transition = "start"]

FwRead ==
    /\ Free("fw")
    /\ state["fw"].present
    /\ \E ans \in Answers(GetAns(vm)) :
        LET o == Fresh("fw", "Read", NoPlan)
        IN /\ op' = [o EXCEPT !["fw"].pc = "done", !["fw"].calls = <<"get">>,
                              !["fw"].ans = ans, !["fw"].fetched = vm,
                              !["fw"].err = FwReadErr(ans)]
           /\ state' = [state EXCEPT !["fw"] =
                CASE ans = "notfound" -> NoState
                  [] ans = "ok" -> FwReadRecord(@, vm)
                  [] OTHER -> @]
    /\ UNCHANGED <<vm, rvNext, unconditional, secret, build>>

\* Update once plan and prior state are decoded: the transition check and,
\* inside a taken start or stop block, the get.
UpdateRunOf(p, plan, old, again) ==
    LET t == plan.transition
        e == [Entered(p, "Update", plan) EXCEPT !.prior = old, !.again = again]
    IN /\ IF FwStartTaken(t, old) \/ FwStopTaken(t, old)
          THEN \E ans \in Answers(GetAns(vm)) :
                LET got == [e EXCEPT !.calls = <<"get">>, !.ans = ans, !.fetched = vm]
                IN CASE ans = "ok" ->
                        /\ op' = Step(p, [got EXCEPT !.pc =
                                   IF FwStartTaken(t, old) THEN "startupdate"
                                                           ELSE "stopupdate"])
                        /\ UNCHANGED state
                     [] ans = "notfound" /\ FwStartTaken(t, old) ->
                        /\ op' = Step(p, [got EXCEPT !.pc =
                                   IF NeedsSecret(plan.ci) THEN "secret" ELSE "create"])
                        /\ UNCHANGED state
                     [] ans = "notfound" /\ ~FwStartTaken(t, old) ->
                        /\ op' = Step(p, [got EXCEPT !.pc = "done"])
                        /\ state' = [state EXCEPT ![p] = PlanData(plan, "Stopped")]
                     [] OTHER ->
                        /\ op' = Step(p, [got EXCEPT !.pc = "done", !.err = TRUE])
                        /\ UNCHANGED state
          ELSE /\ op' = Step(p, [e EXCEPT !.pc = "done"])
               /\ state' = [state EXCEPT ![p] = PlanData(plan, "unknown")]
       /\ UNCHANGED <<vm, rvNext, unconditional, secret, build>>

FwUpdateRun(plan, old, again) == UpdateRunOf("fw", plan, old, again)

\* Update, entry, for a plan with cloud_init ci.
FwUpdateCI(t, c, ci) ==
    /\ Free("fw")
    /\ state["fw"].present
    /\ FwUpdateRun([transition |-> t, cfg |-> c, running |-> TRUE, ci |-> ci],
                   state["fw"].transition, "no")

\* Update, entry, for a plan without cloud_init.
FwUpdate(t, c) == FwUpdateCI(t, c, NoCI)

\* The host delivers a start Update that returned success a second time:
\* the same plan and the same prior state.
FwUpdateAgain ==
    /\ op["fw"].pc = "done" /\ op["fw"].kind = "Update"
    /\ op["fw"].plan.transition = "start"
    /\ ~op["fw"].err /\ op["fw"].again = "no"
    /\ FwUpdateRun(op["fw"].plan, op["fw"].prior, "redelivery")

\* The host retries an Update that failed after the Secret was created:
\* the same plan and the same prior state again.
FwUpdateRetry ==
    /\ op["fw"].kind = "Update" /\ PartialCreation(op["fw"])
    /\ FwUpdateRun(op["fw"].plan, op["fw"].prior, "retry")

\* Update: the update call of the start or stop block and the final save.
UpdateWriteOf(p) ==
    /\ op[p].pc \in {"startupdate", "stopupdate"}
    /\ rvNext < MaxRV
    /\ LET o == op[p]
           starting == o.pc = "startupdate"
           m == IF starting THEN FwStartManifest(o.fetched)
                            ELSE FwStopManifest(o.fetched)
       IN \E ans \in Answers(UpdateAns(vm, m, unconditional)) :
           /\ op' = Step(p,
                        [o EXCEPT !.pc = "done", !.calls = Append(o.calls, "update"),
                                  !.ans = ans, !.pre = vm, !.sent = m,
                                  !.err = (ans # "ok")])
           /\ IF ans = "ok"
              THEN /\ vm' = Stored(m, rvNext + 1)
                   /\ rvNext' = rvNext + 1
                   /\ state' = [state EXCEPT ![p] =
                        PlanData(o.plan, IF starting THEN "Running" ELSE "Stopped")]
              ELSE UNCHANGED <<vm, rvNext, state>>
    /\ UNCHANGED <<unconditional, secret, build>>

FwUpdateWrite == UpdateWriteOf("fw")

\* Delete: the transition check, then one delete call.  A Delete that
\* reports no error ends with the resource removed from the recorded state.
FwDelete ==
    /\ Free("fw")
    /\ state["fw"].present
    /\ LET o == Fresh("fw", "Delete", NoPlan)
       IN IF FwDeleteSkips(state["fw"].transition)
          THEN /\ op' = [o EXCEPT !["fw"].pc = "done"]
               /\ state' = [state EXCEPT !["fw"] = NoState]
               /\ UNCHANGED vm
          ELSE \E ans \in Answers(DeleteAns(vm)) :
                /\ op' = [o EXCEPT !["fw"].pc = "done", !["fw"].calls = <<"delete">>,
                                   !["fw"].ans = ans, !["fw"].pre = vm,
                                   !["fw"].err = FwDeleteErr(ans)]
                /\ vm' = IF ans = "ok" THEN Absent ELSE vm
                /\ state' = [state EXCEPT !["fw"] =
                                IF FwDeleteErr(ans) THEN @ ELSE NoState]
    /\ UNCHANGED <<rvNext, unconditional, secret, build>>

(* ------------------------ SDK VM resources ---------------------------- *)
\* The resource data of a kubevirt_vm plan, without optional blocks.
SdkData(d) ==
    [name |-> "vm", namespace |-> "ns", image |-> d.cfg, memory |-> d.cfg, cpu |-> d.cfg,
     tolerations |-> <<>>, nics |-> <<>>, pci |-> <<>>, gpu |-> <<>>]

\* createVMObject: the manifest resourceKubevirtKubevirtVM* builds from the
\* resource data; spec.running is false and no resourceVersion is set.
createVMObject(d) ==
    LET spec == createVMObjectSpec(SdkData(d))
    IN [exists |-> TRUE, running |-> spec.running, rv |-> NoRV, cfg |-> d.cfg,
        volumes |-> spec.volumes]

\* virtualmachine.FromResourceData: the typed object built from the
\* resource data, which carries the running flag the configuration gives.
FromResourceData(d) ==
    [exists |-> TRUE, running |-> d.running, rv |-> NoRV, cfg |-> d.cfg,
     volumes |-> <<ContainerDisk(d.cfg)>>]

\* resourceKubevirtKubevirtVMUpdate: the fetched object is discarded and the
\* manifest is rebuilt from the resource data.
SdkUpdateManifest(d, current) == createVMObject(d)

\* resourceKubevirtVirtualMachineUpdate: the rebuilt object takes the
\* fetched resourceVersion.
VirtUpdateManifest(d, current) == [FromResourceData(d) EXCEPT !.rv = current.rv]

\* Delete of each SDK resource: not-found returns nil, other errors are wrapped.
SdkDeleteErr(ans) == ans # "ok" /\ ans # "notfound"

VirtDeleteErr(ans) == ans # "ok" /\ ans # "notfound"

SdkReadErr_NotFoundFails(ans) == ans # "ok"

\* Read of each SDK resource: not-found clears the ID and returns nil.
SdkReadErr(ans) == ans # "ok" /\ ans # "notfound"

VirtReadErr(ans) == ans # "ok" /\ ans # "notfound"

BuildOf(p, d) == IF p = "sdkvm" THEN createVMObject(d) ELSE FromResourceData(d)

UpdateManifestOf(p, d, current) ==
    IF p = "sdkvm" THEN SdkUpdateManifest(d, current) ELSE VirtUpdateManifest(d, current)

DeleteErrOf(p, ans) == IF p = "sdkvm" THEN SdkDeleteErr(ans) ELSE VirtDeleteErr(ans)

ReadErrOf(p, ans) == IF p = "sdkvm" THEN SdkReadErr(ans) ELSE VirtReadErr(ans)

Runs(p) == IF p = "sdkvirt" THEN BOOLEAN ELSE {FALSE}

\* strings.Split(str, sep) for a one-character separator: n occurrences of
\* sep give n + 1 parts, empty ones included.
RECURSIVE Split(_, _)
Split(str, sep) ==
    IF ~Contains(str, sep) THEN <<str>>
    ELSE LET i == IndexOf(str, sep)
         IN <<SubSeq(str, 1, i - 1)>> \o Split(SubSeq(str, i + 1, Len(str)), sep)

idParts_AtLeastTwo(id) ==
    LET parts == Split(id, "/")
    IN IF Len(parts) < 2 THEN [err |-> TRUE]
       ELSE [err |-> FALSE, namespace |-> parts[1], name |-> parts[2]]

\* idParts: an identifier that does not split into exactly two parts is an
\* error.
idParts(id) ==
    LET parts == Split(id, "/")
    IN IF Len(parts) # 2 THEN [err |-> TRUE]
       ELSE [err |-> FALSE, namespace |-> parts[1], name |-> parts[2]]

\* utils.IdParts of the kubevirt_virtual_machine resource.
IdParts(id) ==
    LET parts == Split(id, "/")
    IN IF Len(parts) # 2 THEN [err |-> TRUE]
       ELSE [err |-> FALSE, namespace |-> parts[1], name |-> parts[2]]

IdPartsOf(p, id) == IF p = "sdkvm" THEN idParts(id) ELSE IdParts(id)

\* The object a gateway call addressed by the parts of an identifier acts
\* on: the store holds no object under any identity but namespace ns, name vm.
Addressed(parts) ==
    IF parts.namespace = <<"n", "s">> /\ parts.name = <<"v", "m">> THEN vm ELSE Absent

\* A handler that returns the error of idParts before any gateway call.
InvalidId(p, kind, plan) ==
    /\ op' = [Fresh(p, kind, plan) EXCEPT ![p] = [@ EXCEPT !.pc = "done", !.err = TRUE]]
    /\ UNCHANGED <<vm, rvNext, state>>

SdkState == [present |-> TRUE, id |-> VMId, status |-> "unknown", transition |-> "null"]

\* Create: the create call and SetId; the read-back follows as its own step.
SdkCreate(p, c, r) ==
    /\ Free(p)
    /\ ~state[p].present
    /\ rvNext < MaxRV
    /\ LET plan == [transition |-> "null", cfg |-> c, running |-> r, ci |-> NoCI]
           o == Fresh(p, "Create", plan)
           m == BuildOf(p, plan)
       IN \E ans \in Answers(CreateAns(vm)) :
           /\ op' = [o EXCEPT ![p] = [@ EXCEPT !.calls = <<"create">>, !.ans = ans,
                                 !.pre = vm, !.sent = m, !.err = (ans # "ok"),
                                 !.pc = IF ans = "ok" THEN "readback" ELSE "done"]]
           /\ IF ans = "ok"
              THEN /\ vm' = Stored(m, rvNext + 1)
                   /\ rvNext' = rvNext + 1
                   /\ state' = [state EXCEPT ![p] = SdkState]
              ELSE UNCHANGED <<vm, rvNext, state>>
    /\ UNCHANGED <<unconditional, secret, build>>

\* The Read that Create and Update end with.
SdkReadBack(p) ==
    /\ op[p].pc = "readback"
    /\ \E ans \in Answers(GetAns(vm)) :
        /\ op' = Step(p, [op[p] EXCEPT !.pc = "done", !.calls = Append(@, "get"),
                                          !.ans = ans, !.fetched = vm,
                                          !.err = ReadErrOf(p, ans)])
        /\ state' = [state EXCEPT ![p] = IF ans = "notfound" THEN NoState ELSE @]
    /\ UNCHANGED <<vm, rvNext, unconditional, secret, build>>

\* Read.
SdkRead(p) ==
    /\ Free(p)
    /\ state[p].present
    /\ LET parts == IdPartsOf(p, state[p].id)
       IN IF parts.err THEN InvalidId(p, "Read", NoPlan)
          ELSE /\ \E ans \in Answers(GetAns(Addressed(parts))) :
                    LET o == Fresh(p, "Read", NoPlan)
                    IN /\ op' = [o EXCEPT ![p] = [@ EXCEPT !.pc = "done",
                                                     !.calls = <<"get">>,
                                                     !.ans = ans,
                                                     !.fetched = Addressed(parts),
                                                     !.err = ReadErrOf(p, ans)]]
                       /\ state' = [state EXCEPT ![p] =
                                        IF ans = "notfound" THEN NoState ELSE @]
               /\ UNCHANGED <<vm, rvNext>>
    /\ UNCHANGED <<unconditional, secret, build>>

\* Exists: one get; not-found answers false without error.
SdkExists(p) ==
    /\ Free(p)
    /\ state[p].present
    /\ LET parts == IdPartsOf(p, state[p].id)
       IN IF parts.err THEN InvalidId(p, "Exists", NoPlan)
          ELSE /\ \E ans \in Answers(GetAns(Addressed(parts))) :
                    LET o == Fresh(p, "Exists", NoPlan)
                    IN op' = [o EXCEPT ![p] = [@ EXCEPT !.pc = "done",
                                                  !.calls = <<"get">>,
                                                  !.ans = ans,
                                                  !.fetched = Addressed(parts),
                                                  !.err = ReadErrOf(p, ans)]]
               /\ UNCHANGED <<vm, rvNext, state>>
    /\ UNCHANGED <<unconditional, secret, build>>

\* schema.ImportStatePassthrough: the identifier given to import becomes
\* the recorded ID as it is.
SdkImport(p, id) ==
    /\ Free(p)
    /\ ~state[p].present
    /\ state' = [state EXCEPT ![p] = [SdkState EXCEPT !.id = id]]
    /\ op' = Cleared
    /\ UNCHANGED <<vm, rvNext, unconditional, secret, build>>

\* Update, entry: the get; any failure of it, not-found included, is returned.
SdkUpdate(p, c, r) ==
    /\ Free(p)
    /\ state[p].present
    /\ LET plan == [transition |-> "null", cfg |-> c, running |-> r, ci |-> NoCI]
           o == Fresh(p, "Update", plan)
           parts == IdPartsOf(p, state[p].id)
       IN IF parts.err THEN InvalidId(p, "Update", plan)
          ELSE /\ \E ans \in Answers(GetAns(Addressed(parts))) :
                    op' = [o EXCEPT ![p] = [@ EXCEPT
                              !.calls = <<"get">>, !.ans = ans,
                              !.fetched = Addressed(parts), !.err = (ans # "ok"),
                              !.pc = IF ans = "ok" THEN "update" ELSE "done"]]
               /\ UNCHANGED <<vm, rvNext, state>>
    /\ UNCHANGED <<unconditional, secret, build>>

\* Update: the update call.
SdkUpdateWrite(p) ==
    /\ op[p].pc = "update"
    /\ rvNext < MaxRV
    /\ LET o == op[p]
           m == UpdateManifestOf(p, o.plan, o.fetched)
       IN \E ans \in Answers(UpdateAns(vm, m, unconditional)) :
           /\ op' = Step(p, [o EXCEPT !.calls = Append(o.calls, "update"),
                                      !.ans = ans, !.pre = vm, !.sent = m,
                                      !.err = (ans # "ok"),
                                      !.pc = IF ans = "ok" THEN "readback" ELSE "done"])
           /\ IF ans = "ok"
              THEN /\ vm' = Stored(m, rvNext + 1)
                   /\ rvNext' = rvNext + 1
              ELSE UNCHANGED <<vm, rvNext>>
    /\ UNCHANGED <<unconditional, state, secret, build>>

\* Delete: one delete call; a nil return lets the SDK drop the resource.
SdkDelete(p) ==
    /\ Free(p)
    /\ state[p].present
    /\ LET parts == IdPartsOf(p, state[p].id)
       IN IF parts.err THEN InvalidId(p, "Delete", NoPlan)
          ELSE /\ \E ans \in Answers(DeleteAns(Addressed(parts))) :
                    LET o == Fresh(p, "Delete", NoPlan)
                    IN /\ op' = [o EXCEPT ![p] = [@ EXCEPT !.pc = "done",
                                                     !.calls = <<"delete">>,
                                                     !.ans = ans,
                                                     !.pre = Addressed(parts),
                                                     !.err = DeleteErrOf(p, ans)]]
                       /\ vm' = IF ans = "ok" THEN Absent ELSE vm
                       /\ state' = [state EXCEPT ![p] =
                                        IF DeleteErrOf(p, ans) THEN @ ELSE NoState]
               /\ UNCHANGED rvNext
    /\ UNCHANGED <<unconditional, secret, build>>

(* ------------------- reading a fetched remote object ------------------ *)
\* A fetched object is a tree of maps in which any key may be missing.
\* The outcome of reading one: the handler returned (err tells whether with
\* an error) or the goroutine panicked.
Returned(value) == [panic |-> FALSE, err |-> FALSE, value |-> value]
Panicked == [panic |-> TRUE]

\* v, ok := m[key].(T): the value under key if m is a map holding it.
Has(m, key) == key \in DOMAIN m

ZeroTime == "0001-01-01T00:00:00Z"

\* vm.GetCreationTimestamp(): the zero time when metadata holds none.
GetCreationTimestamp(obj) ==
    IF Has(obj, "metadata") /\ Has(obj.metadata, "creationTimestamp")
    THEN obj.metadata.creationTimestamp ELSE ZeroTime

GetName(obj) ==
    IF Has(obj, "metadata") /\ Has(obj.metadata, "name") THEN obj.metadata.name ELSE ""

GetNamespace(obj) ==
    IF Has(obj, "metadata") /\ Has(obj.metadata, "namespace")
    THEN obj.metadata.namespace ELSE ""

DigitValue == [c \in {"0", "1", "2", "3", "4", "5", "6", "7", "8", "9"} |->
                 CASE c = "0" -> 0 [] c = "1" -> 1 [] c = "2" -> 2 [] c = "3" -> 3
                   [] c = "4" -> 4 [] c = "5" -> 5 [] c = "6" -> 6 [] c = "7" -> 7
                   [] c = "8" -> 8 [] c = "9" -> 9]

RECURSIVE AtoiDigits(_)
AtoiDigits(str) ==
    IF str = <<>> THEN 0
    ELSE 10 * AtoiDigits(SubSeq(str, 1, Len(str) - 1)) + DigitValue[str[Len(str)]]

\* strconv.Atoi on a string of characters: fails on the empty string and on
\* any character that is not a digit (signs are not modelled).
Atoi(str) ==
    IF str # <<>> /\ \A i \in 1..Len(str) : str[i] \in DOMAIN DigitValue
    THEN [ok |-> TRUE, n |-> AtoiDigits(str)]
    ELSE [ok |-> FALSE, n |-> 0]

\* The path spec.template.spec of an object, as far as it is there.
TemplateSpec(obj) ==
    IF Has(obj, "spec") /\ Has(obj.spec, "template") /\ Has(obj.spec.template, "spec")
    THEN obj.spec.template.spec ELSE <<>>

Requests(obj) ==
    LET ts == TemplateSpec(obj)
    IN IF Has(ts, "domain") /\ Has(ts.domain, "resources")
          /\ Has(ts.domain.resources, "requests")
       THEN ts.domain.resources.requests ELSE <<>>

\* The image of the first volume that has a containerDisk with an image.
RECURSIVE FirstImage(_)
FirstImage(volumes) ==
    IF volumes = <<>> THEN [ok |-> FALSE]
    ELSE IF Has(Head(volumes), "containerDisk") /\ Has(Head(volumes).containerDisk, "image")
         THEN [ok |-> TRUE, image |-> Head(volumes).containerDisk.image]
         ELSE FirstImage(Tail(volumes))

\* updateResourceDataFromVM: name, namespace and creation_timestamp are
\* always set; memory, cpu and image only when the path to them is there
\* (cpu only when it converts to an integer).  Every step down the tree is
\* a checked conversion.
updateResourceDataFromVM(obj, d) ==
    LET d1 == [d EXCEPT !.name = GetName(obj), !.namespace = GetNamespace(obj),
                        !.creation_timestamp = GetCreationTimestamp(obj)]
        requests == Requests(obj)
        d2 == IF Has(requests, "memory") THEN [d1 EXCEPT !.memory = requests.memory] ELSE d1
        cpu == IF Has(requests, "cpu") THEN Atoi(requests.cpu) ELSE [ok |-> FALSE, n |-> 0]
        d3 == IF cpu.ok THEN [d2 EXCEPT !.cpu = cpu.n] ELSE d2
        ts == TemplateSpec(obj)
        image == IF Has(ts, "volumes") THEN FirstImage(ts.volumes) ELSE [ok |-> FALSE]
        d4 == IF image.ok THEN [d3 EXCEPT !.image = image.image] ELSE d3
    IN Returned(d4)

\* KubeVirtVMResource.Read after a successful get.
ReadProjection(obj, data) ==
    Returned([data EXCEPT !.vm_status = "Running",
                          !.creation_timestamp = GetCreationTimestamp(obj),
                          !.workspace_transition = "start"])

\* KubeVirtVMResource.Update, start and stop paths after a successful get:
\* vm.Object["spec"].(map[string]interface{})["running"] = running is an
\* unchecked conversion, which panics when the object holds no spec.
SetRunning(obj, running) ==
    IF Has(obj, "spec")
    THEN Returned([obj EXCEPT !.spec = ("running" :> running) @@ obj.spec])
    ELSE Panicked

(* --------------------------- other writers ---------------------------- *)
\* Another client of the store flips spec.running of the existing object.
ExtWrite ==
    /\ vm.exists
    /\ rvNext < MaxRV
    /\ vm' = [vm EXCEPT !.running = ~@, !.rv = rvNext + 1]
    /\ rvNext' = rvNext + 1
    /\ op' = Cleared
    /\ UNCHANGED <<unconditional, state, secret, build>>

\* Another client of the store deletes the object.
ExtDelete ==
    /\ vm.exists
    /\ vm' = Absent
    /\ op' = Cleared
    /\ UNCHANGED <<rvNext, unconditional, state, secret, build>>

(* --------------------------- specification ---------------------------- *)
\* No manifest has been built outside a lifecycle call.
NoBuild == [fn |-> "none"]

Init ==
    /\ vm = Absent
    /\ rvNext = 0
    /\ unconditional \in BOOLEAN
    /\ state = [p \in Procs |-> NoState]
    /\ op = [p \in Procs |-> Idle]
    /\ secret = NoSecret
    /\ build = NoBuild

\* The host runs one lifecycle call at a time; other writers act between calls.
Next ==
    \/ \E t \in Transitions, c \in Cfgs : Quiet /\ FwCreate(t, c)
    \/ Quiet /\ FwCreateAgain
    \/ FwCreateVM
    \/ Quiet /\ FwRead
    \/ \E t \in Transitions, c \in Cfgs : Quiet /\ FwUpdate(t, c)
    \/ Quiet /\ FwUpdateAgain
    \/ FwUpdateWrite
    \/ Quiet /\ FwDelete
    \/ \E p \in SdkProcs, c \in Cfgs : \E r \in Runs(p) : Quiet /\ SdkCreate(p, c, r)
    \/ \E p \in SdkProcs : SdkReadBack(p)
    \/ \E p \in SdkProcs : Quiet /\ SdkRead(p)
    \/ \E p \in SdkProcs, c \in Cfgs : \E r \in Runs(p) : Quiet /\ SdkUpdate(p, c, r)
    \/ \E p \in SdkProcs : SdkUpdateWrite(p)
    \/ \E p \in SdkProcs : Quiet /\ SdkDelete(p)
    \/ Quiet /\ ExtWrite
    \/ Quiet /\ ExtDelete

Spec == Init /\ [][Next]_vars

\* Two hosts (the framework resource and the SDK kubevirt_vm resource) and
\* other writers act on the same object at once: the gateway calls of their
\* lifecycle calls interleave freely.
ConcProcs == {"sdkvm"}

NextConc ==
    \/ \E t \in Transitions, c \in Cfgs : FwCreate(t, c)
    \/ FwCreateVM
    \/ FwRead
    \/ \E t \in Transitions, c \in Cfgs : FwUpdate(t, c)
    \/ FwUpdateWrite
    \/ FwDelete
    \/ \E p \in ConcProcs, c \in Cfgs : \E r \in Runs(p) : SdkCreate(p, c, r)
    \/ \E p \in ConcProcs : SdkReadBack(p)
    \/ \E p \in ConcProcs : SdkRead(p)
    \/ \E p \in ConcProcs, c \in Cfgs : \E r \in Runs(p) : SdkUpdate(p, c, r)
    \/ \E p \in ConcProcs : SdkUpdateWrite(p)
    \/ \E p \in ConcProcs : SdkDelete(p)
    \/ ExtWrite
    \/ ExtDelete

SpecConc == Init /\ [][NextConc]_vars

\* The framework resource alone with other writers, for plans that carry
\* cloud_init texts around the inline limit, bare or wrapped with a token.
\* Raw lengths that put the final text at the limit and one byte over it.
CILens(token) ==
    IF token THEN {InlineLimit - WrapLen - 2 * TokLen, InlineLimit - WrapLen - 2 * TokLen + 1}
             ELSE {InlineLimit, InlineLimit + 1}

CloudInits ==
    {NoCI} \cup UNION {{[given |-> TRUE, raw |-> n, token |-> k] : n \in CILens(k)} :
                         k \in BOOLEAN}

NextCI ==
    \/ \E t \in Transitions, ci \in CloudInits : Quiet /\ FwCreateCI(t, 1, ci)
    \/ Quiet /\ FwCreateRetry
    \/ FwSecretCreate
    \/ FwCreateVM
    \/ Quiet /\ FwRead
    \/ \E t \in Transitions, ci \in CloudInits : Quiet /\ FwUpdateCI(t, 1, ci)
    \/ Quiet /\ FwUpdateRetry
    \/ FwUpdateWrite
    \/ Quiet /\ FwDelete
    \/ Quiet /\ ExtWrite
    \/ Quiet /\ ExtDelete

SpecCI == Init /\ [][NextCI]_vars

\* The two manifest builders applied to resource data drawn from bounded
\* sets: every compact toleration string up to MaxTolLen bytes on its own,
\* short lists of sample strings and of structured blocks, and the other
\* optional attributes in every combination.
Letters == {"k", "v"}

TolChars == Letters \cup {"=", ":"}

StringsUpTo(n) == UNION {[1..m -> TolChars] : m \in 0..n}

TolSamples == {<<"k", "=", "v", ":", "k">>, <<"v", ":", "k">>, <<"k">>}

ListsUpTo(S, n) == UNION {[1..m -> S] : m \in 0..n}

TolLists ==
    {<<tol>> : tol \in StringsUpTo(MaxTolLen)} \cup ListsUpTo(TolSamples, MaxTols)

TolBlocks ==
    [key : {"", "k"}, operator : {"unset", "", "Equal", "Exists"},
     value : {"", "v"}, effect : {"", "NoSchedule"}]

Nics == [name : {"net1", "net2"}, network_name : {"multus"}]

NicLists == ListsUpTo(Nics, MaxNics)

NullList == [null |-> TRUE, elems |-> <<>>]

FwBuildData ==
    [name : {"vm"}, namespace : {"ns"},
     image : Cfgs, memory : Cfgs, cpu : Cfgs, hugepages : {"null", "2Mi"},
     tolerations : {NullList, [null |-> FALSE, elems |-> <<>>]},
     nics : NicLists, ci : CloudInits]
    \cup [name : {"vm"}, namespace : {"ns"},
          image : {1}, memory : {1}, cpu : {1}, hugepages : {"null"},
          tolerations : {[null |-> FALSE, elems |-> l] : l \in TolLists},
          nics : {<<>>}, ci : {NoCI}]

DeviceBlocks ==
    [name : {"d1", "d2"}, device_name : {"nvidia.com/gpu"},
     vendor_id : {"", "10de"}, product_id : {""}]

DeviceLists == ListsUpTo(DeviceBlocks, MaxDevs)

SdkBuildData ==
    [name : {"vm"}, namespace : {"ns"},
     image : Cfgs, memory : Cfgs, cpu : Cfgs, tolerations : {<<>>}, nics : NicLists,
     pci : {<<>>}, gpu : {<<>>}]
    \cup [name : {"vm"}, namespace : {"ns"}, image : {1}, memory : {1}, cpu : {1},
          tolerations : ListsUpTo(TolBlocks, MaxTols), nics : {<<>>},
          pci : {<<>>}, gpu : {<<>>}]
    \cup [name : {"vm"}, namespace : {"ns"}, image : {1}, memory : {1}, cpu : {1},
          tolerations : {<<>>}, nics : {<<>>}, pci : DeviceLists, gpu : DeviceLists]

\* createVM applied to data, once.
BuildCreateVM(data) ==
    /\ build = NoBuild
    /\ build' = [fn |-> "createVM", data |-> data, spec |-> createVMSpec(data)]
    /\ UNCHANGED <<vm, rvNext, unconditional, state, op, secret>>

\* createVMObject applied to d, once.
BuildCreateVMObject(d) ==
    /\ build = NoBuild
    /\ build' = [fn |-> "createVMObject", data |-> d, spec |-> createVMObjectSpec(d)]
    /\ UNCHANGED <<vm, rvNext, unconditional, state, op, secret>>

NextBuild ==
    \/ build = NoBuild /\ \E data \in FwBuildData : BuildCreateVM(data)
    \/ build = NoBuild /\ \E d \in SdkBuildData : BuildCreateVMObject(d)

SpecBuild == Init /\ [][NextBuild]_vars

\* Two hosts of the framework resource that both track the one identity,
\* each with a recorded stop (as a Create with transition stop leaves it,
\* no VirtualMachine created), run Update calls whose gateway calls
\* interleave freely; nobody else writes.
FwHosts == {"fw", "fwB"}

StopPlan == [transition |-> "stop", cfg |-> 1, running |-> TRUE, ci |-> NoCI]

InitTwo ==
    /\ vm = Absent
    /\ rvNext = 0
    /\ unconditional \in BOOLEAN
    /\ state = [p \in Procs |->
                  IF p \in FwHosts THEN PlanData(StopPlan, "unknown") ELSE NoState]
    /\ op = [p \in Procs |-> Idle]
    /\ secret = NoSecret
    /\ build = NoBuild

HostUpdate(p, t, c) ==
    /\ Free(p)
    /\ state[p].present
    /\ UpdateRunOf(p, [transition |-> t, cfg |-> c, running |-> TRUE, ci |-> NoCI],
                   state[p].transition, "no")

NextTwo ==
    \/ \E p \in FwHosts, t \in Transitions : HostUpdate(p, t, 1)
    \/ \E p \in FwHosts : CreateVMOf(p)
    \/ \E p \in FwHosts : UpdateWriteOf(p)

SpecTwo == InitTwo /\ [][NextTwo]_vars

\* The SDK resources while other actors write and delete between any two
\* of their gateway calls.
NextRace ==
    \/ \E p \in SdkProcs, c \in Cfgs : \E r \in Runs(p) : SdkCreate(p, c, r)
    \/ \E p \in SdkProcs : SdkReadBack(p)
    \/ \E p \in SdkProcs : SdkRead(p)
    \/ \E p \in SdkProcs : SdkDelete(p)
    \/ ExtWrite
    \/ ExtDelete

SpecRace == Init /\ [][NextRace]_vars

\* The SDK resources with imported identifiers: any string of up to
\* MaxIdLen characters, and the identifier of the modelled object.
IdChars == {"a", "/"}

ImportIds == (UNION {[1..m -> IdChars] : m \in 1..MaxIdLen}) \cup {VMId}

NextId ==
    \/ \E p \in SdkProcs, id \in ImportIds : Quiet /\ SdkImport(p, id)
    \/ \E p \in SdkProcs, c \in Cfgs : \E r \in Runs(p) : Quiet /\ SdkCreate(p, c, r)
    \/ \E p \in SdkProcs : SdkReadBack(p)
    \/ \E p \in SdkProcs : Quiet /\ SdkRead(p)
    \/ \E p \in SdkProcs : Quiet /\ SdkExists(p)
    \/ \E p \in SdkProcs, c \in Cfgs : \E r \in Runs(p) : Quiet /\ SdkUpdate(p, c, r)
    \/ \E p \in SdkProcs : SdkUpdateWrite(p)
    \/ \E p \in SdkProcs : Quiet /\ SdkDelete(p)
    \/ Quiet /\ ExtDelete

SpecId == Init /\ [][NextId]_vars

\* The handlers' reading of a fetched object, applied to objects in which
\* any part of the tree may be missing.
Opt(key, values) == {<<>>} \cup {key :> v : v \in values}

RequestsShapes ==
    {m @@ c : m \in Opt("memory", {"1Gi"}), c \in Opt("cpu", {<<>>, <<"2">>, <<"1", "6">>, <<"x">>})}

VolumeShapes ==
    {<<>>, <<ContainerDisk(2)>>,
     <<[name |-> "cloudinitdisk"], [name |-> "containerdisk", containerDisk |-> <<>>],
       ContainerDisk(2), ContainerDisk(1)>>}

TemplateSpecShapes ==
    {d @@ v : d \in Opt("domain", Opt("resources", Opt("requests", RequestsShapes))),
              v \in Opt("volumes", VolumeShapes)}

SpecShapes ==
    {r @@ t : r \in Opt("running", BOOLEAN),
              t \in Opt("template", Opt("spec", TemplateSpecShapes))}

ObjectShapes ==
    {("metadata" :> m) @@ sp :
        m \in {[name |-> "vm", namespace |-> "ns"] @@ t :
                 t \in Opt("creationTimestamp", {"2026-01-01T00:00:00Z"})},
        sp \in Opt("spec", SpecShapes)}

\* The recorded values the projections start from.
PriorD == [name |-> "", namespace |-> "", creation_timestamp |-> "",
           memory |-> "512Mi", cpu |-> 1, image |-> 1]

PriorModel == [vm_status |-> "Stopped", creation_timestamp |-> "",
               workspace_transition |-> "stop"]

Apply(fn, obj, out) ==
    /\ build' = [fn |-> fn, data |-> obj, out |-> out]
    /\ UNCHANGED <<vm, rvNext, unconditional, state, op, secret>>

NextShape ==
    \/ build = NoBuild /\ \E obj \in ObjectShapes :
          Apply("updateResourceDataFromVM", obj, updateResourceDataFromVM(obj, PriorD))
    \/ build = NoBuild /\ \E obj \in ObjectShapes :
          Apply("Read", obj, ReadProjection(obj, PriorModel))
    \/ build = NoBuild /\ \E obj \in ObjectShapes, t \in {"start", "stop"} :
          Apply("Update", obj, SetRunning(obj, t = "start"))

SpecShape == Init /\ [][NextShape]_vars

(* ------------------------------ claims -------------------------------- *)
Count(calls, c) == Cardinality({i \in DOMAIN calls : calls[i] = c})

\* The latest lifecycle call of the framework resource has returned.
FwDone(kind) == op["fw"].pc = "done" /\ op["fw"].kind = kind

\* The remote object as a returned framework call found it when it was
\* entered: the store itself if the call issued no gateway call, else what
\* its first gateway call saw.
AtEntry(o) ==
    IF o.calls = <<>> THEN vm
    ELSE IF Head(o.calls) = "get" THEN o.fetched ELSE o.pre

\* C1: a start request (Create with transition start, or Update with
\* requested transition start) made while no remote VirtualMachine exists
\* issues exactly one VirtualMachine create call and no update or delete
\* call, and on success records status Created.
C1_StartOnAbsentCreates ==
    LET o == op["fw"] IN
    ((FwDone("Create") \/ FwDone("Update"))
        /\ o.plan.transition = "start" /\ ~AtEntry(o).exists /\ ~o.err)
    => /\ Count(o.calls, "create") = 1
       /\ Count(o.calls, "update") = 0
       /\ Count(o.calls, "delete") = 0
       /\ state["fw"].status = "Created"

\* C2: every Update whose requested transition is start and whose remote
\* VirtualMachine exists with spec.running=false, whatever the prior recorded
\* transition, issues one get followed by one update; the updated manifest
\* is the fetched one with only spec.running changed to true, and on
\* success the status is Running.
C2_StartOnStoppedUpdates ==
    LET o == op["fw"] IN
    (FwDone("Update") /\ o.plan.transition = "start"
        /\ AtEntry(o).exists /\ ~AtEntry(o).running /\ o.ans # "unavailable")
    => /\ o.calls = <<"get", "update">>
       /\ o.sent = [o.fetched EXCEPT !.running = TRUE]
       /\ ~o.err
       /\ state["fw"].status = "Running"

\* C3: an Update whose requested transition (start or stop) equals the
\* prior recorded transition is still executed: it issues the get (and then
\* the create or update that follows from it).
C3_SameTransitionExecuted ==
    LET o == op["fw"] IN
    (FwDone("Update") /\ o.plan.transition \in {"start", "stop"}
        /\ o.prior = o.plan.transition)
    => /\ o.calls # <<>>
       /\ Head(o.calls) = "get"

\* C4: a Delete issues a delete of the remote VirtualMachine whatever the
\* prior recorded transition is, and after a successful Delete with no
\* other writer the remote VirtualMachine does not exist.
C4_DeleteDeletes ==
    LET o == op["fw"] IN
    FwDone("Delete")
    => /\ o.calls = <<"delete">>
       /\ (~o.err => ~vm.exists)

\* A returned Delete of any of the three resources that issued its delete call.
DeleteDone(p) == op[p].pc = "done" /\ op[p].kind = "Delete" /\ op[p].calls = <<"delete">>

\* C5: in every VM resource implementation, a delete whose gateway call
\* answers not-found returns success (and the resource leaves the recorded
\* state), while any other gateway failure is returned as an error (and the
\* recorded state is kept).
C5_DeleteNotFoundIsSuccess ==
    \A p \in Procs :
        DeleteDone(p)
        => /\ (op[p].ans = "notfound" => ~op[p].err /\ ~state[p].present)
           /\ (op[p].ans \notin {"ok", "notfound"} => op[p].err /\ state[p].present)
           /\ (op[p].ans # "ok" => vm = op[p].pre)

C5_Witness ==
    \E p \in Procs :
        /\ DeleteDone(p) /\ op[p].ans = "notfound" /\ ~op[p].err
        /\ ~state[p].present /\ ~vm.exists

\* C6: a stop request on a remote VirtualMachine that exists and is running
\* issues one get then one update that sets spec.running=false, no delete,
\* and returns status Stopped; with no other writer the remote object
\* afterwards exists with spec.running=false.
C6_StopOnRunningUpdates ==
    LET o == op["fw"] IN
    (FwDone("Update") /\ o.plan.transition = "stop"
        /\ AtEntry(o).exists /\ AtEntry(o).running /\ o.ans # "unavailable")
    => /\ o.calls = <<"get", "update">>
       /\ o.sent.running = FALSE
       /\ ~o.err
       /\ state["fw"].status = "Stopped"
       /\ vm.exists /\ ~vm.running

\* C7: a stop request made while no remote VirtualMachine exists (Create
\* with transition stop, or Update with requested transition stop) is a
\* no-op success: no create, update or delete call, no error, and the
\* result status is Stopped.
C7_StopOnAbsentIsNoop ==
    LET o == op["fw"] IN
    ((FwDone("Create") \/ FwDone("Update"))
        /\ o.plan.transition = "stop" /\ ~AtEntry(o).exists /\ o.ans # "unavailable")
    => /\ Count(o.calls, "create") = 0
       /\ Count(o.calls, "update") = 0
       /\ Count(o.calls, "delete") = 0
       /\ ~o.err
       /\ state["fw"].status = "Stopped"

C9_UpdateCarriesFetchedVersion ==
    \A p \in Procs :
        (op[p].kind = "Update" /\ Len(op[p].calls) = 2 /\ op[p].calls[2] = "update")
        => op[p].sent.rv = op[p].fetched.rv

\* An Update operation whose update call found the object at another
\* version than the one its get returned: someone wrote in between.
StaleUpdate(o) ==
    /\ o.kind = "Update" /\ Len(o.calls) = 2 /\ o.calls[2] = "update"
    /\ o.pre.exists /\ o.pre.rv # o.fetched.rv

\* C10: if another writer updates the remote VirtualMachine between an
\* Update operation's get and its update, the update fails (the store
\* refuses the version), the failure is returned after that single attempt,
\* and the other writer's change is not overwritten; no update succeeds from
\* a version that is no longer the stored one.
C10_NoLostUpdate ==
    \A p \in Procs :
        StaleUpdate(op[p])
        => /\ op[p].ans \in {"conflict", "invalid", "unavailable"}
           /\ op[p].err
           /\ op[p].pc = "done"
           /\ vm = op[p].pre

\* A framework call in which createVM ran up to a gateway call of its own.
InCreateVM(o) == Count(o.calls, "secretcreate") + Count(o.calls, "create") > 0

\* The place of call c in calls (0 if it was not issued).
Place(calls, c) ==
    IF Count(calls, c) = 0 THEN 0 ELSE CHOOSE i \in DOMAIN calls : calls[i] = c

\* C11: in createVM a final cloud-init text (after the optional agent-token
\* wrapping) of at most 2048 bytes is embedded inline as userData and no
\* Secret create call is issued; a text of 2049 bytes or more causes exactly
\* one Secret create call and a cloudinitdisk volume that references the
\* secret by name instead of carrying the data; in both cases exactly one
\* volume is appended after containerdisk.
C11_InlineLimit ==
    LET o == op["fw"]
        text == EnhancedCloudInit(o.plan.ci)
        small == TextLen(text) <= InlineLimit
    IN (InCreateVM(o) /\ o.plan.ci.given)
       => /\ Count(o.calls, "secretcreate") = (IF small THEN 0 ELSE 1)
          /\ Count(o.calls, "create") = 1
             => /\ Len(o.sent.volumes) = 2
                /\ o.sent.volumes[1] = ContainerDisk(o.plan.cfg)
                /\ o.sent.volumes[2].name = "cloudinitdisk"
                /\ o.sent.volumes[2].cloudInitNoCloud =
                     (IF small THEN [userData |-> text]
                               ELSE [secretRef |-> [name |-> secret.name]])

C11_Witness ==
    LET o == op["fw"]
    IN /\ o.pc = "done" /\ ~o.err /\ o.plan.ci.token
       /\ TextLen(EnhancedCloudInit(o.plan.ci)) = InlineLimit + 1
       /\ o.calls = <<"secretcreate", "create">>
       /\ vm.volumes[2].cloudInitNoCloud = [secretRef |-> [name |-> secret.name]]
       /\ secret.exists

\* C12: when the payload is over the limit, createVM issues the Secret
\* create before the VirtualMachine create; an already-exists answer to the
\* Secret create is treated as success and the VirtualMachine create
\* proceeds, while any other Secret create failure aborts the operation
\* with an error and no VirtualMachine create call is issued.
C12_SecretBeforeVM ==
    LET o == op["fw"]
    IN /\ (NeedsSecret(o.plan.ci) /\ Count(o.calls, "create") > 0)
          => /\ Place(o.calls, "secretcreate") > 0
             /\ Place(o.calls, "secretcreate") < Place(o.calls, "create")
       /\ o.secretAns = "alreadyexists"
          => /\ o.pc = "create" \/ (o.pc = "done" /\ Count(o.calls, "create") = 1)
             /\ o.pc = "done" => (o.err <=> o.ans # "ok")
       /\ o.secretAns \notin {"none", "ok", "alreadyexists"}
          => /\ o.pc = "done" /\ o.err
             /\ Count(o.calls, "create") = 0

C12_Witness ==
    LET o == op["fw"]
    IN /\ o.pc = "done" /\ o.secretAns = "alreadyexists"
       /\ o.calls[Len(o.calls)] = "create" /\ o.ans = "ok" /\ ~o.err
       /\ vm.exists

\* C13: if the Secret create succeeds and the following VirtualMachine
\* create fails, the operation returns an error and the Secret stays in the
\* store (no compensating delete); a retry of the same start request then
\* finds the Secret (already exists), proceeds, and creates the
\* VirtualMachine when the store accepts it.
C13_PartialCreation ==
    LET o == op["fw"]
        text == EnhancedCloudInit(o.plan.ci)
    IN /\ (o.pc = "done" /\ o.secretAns = "ok"
             /\ o.calls[Len(o.calls)] = "create" /\ o.ans # "ok")
          => /\ o.err
             /\ secret = SecretOf(text)
             /\ vm = o.pre
       /\ (o.again = "retry" /\ o.secretAns # "none")
          => /\ secret = SecretOf(text)
             /\ o.secretAns \in {"alreadyexists", "unavailable"}
             /\ o.secretAns = "alreadyexists"
                => /\ o.pc = "create" \/ o.calls[Len(o.calls)] = "create"
                   /\ (o.pc = "done" /\ o.ans = "ok")
                      => /\ ~o.err
                         /\ vm = Stored(createVM(o.plan), vm.rv)
                         /\ state["fw"].status = "Created"

C13_Witness ==
    LET o == op["fw"]
    IN /\ o.pc = "done" /\ o.again = "retry" /\ o.secretAns = "alreadyexists"
       /\ o.ans = "ok" /\ ~o.err
       /\ vm.exists /\ secret = SecretOf(EnhancedCloudInit(o.plan.ci))

\* The list under key field of a built manifest (empty if the key is not set).
ListAt(spec, field) == IF field \in DOMAIN spec THEN spec[field] ELSE <<>>

\* C14 as stated: every VirtualMachine manifest built for a create call, by
\* createVM in the framework resource and by createVMObject in the SDK
\* resource, has spec.running=true, requests {memory, cpu} when no
\* hugepages are set and, when no cloud-init is given, exactly one volume,
\* containerdisk, referencing the configured image.
C14_CreateManifest ==
    build.fn # "none"
    => /\ build.spec.running = TRUE
       /\ ("hugepages" \notin DOMAIN build.data \/ build.data.hugepages = "null")
          => build.spec.requests = [memory |-> build.data.memory, cpu |-> build.data.cpu]
       /\ ("ci" \notin DOMAIN build.data \/ ~build.data.ci.given)
          => build.spec.volumes =
               <<[name |-> "containerdisk", containerDisk |-> [image |-> build.data.image]]>>

\* C14, amended: the manifest createVM builds has spec.running=true,
\* requests {memory, cpu} when no hugepages are set and, when no cloud-init
\* is given, the single volume containerdisk referencing the image; the
\* manifest createVMObject builds (the SDK resource takes no transition
\* request) has spec.running=false, requests {memory, cpu} and the single
\* volume containerdisk referencing the image.
C14_CreateManifestPerBuilder ==
    LET plain == [memory |-> build.data.memory, cpu |-> build.data.cpu]
        disk == <<[name |-> "containerdisk",
                   containerDisk |-> [image |-> build.data.image]]>>
    IN /\ build.fn = "createVM"
          => /\ build.spec.running = TRUE
             /\ build.data.hugepages = "null" => build.spec.requests = plain
             /\ ~build.data.ci.given => build.spec.volumes = disk
       /\ build.fn = "createVMObject"
          => /\ build.spec.running = FALSE
             /\ build.spec.requests = plain
             /\ build.spec.volumes = disk

C14_Witness ==
    /\ build.fn = "createVMObject"
    /\ build.spec.running = FALSE
    /\ Len(build.spec.volumes) = 1 /\ build.spec.volumes[1].name = "containerdisk"
    /\ build.data.image = MaxCfg

\* A createVM build whose tolerations attribute is set.
TolBuilt == build.fn = "createVM" /\ ~build.data.tolerations.null

\* tol is key=value:effect with "=" at a and ":" at b, or (a = 0)
\* key:effect with ":" at b; key, value and effect hold no separator.
WellFormed(tol, a, b) ==
    /\ b \in 1..Len(tol) /\ tol[b] = ":"
    /\ a = 0 \/ (a \in 1..(b - 1) /\ tol[a] = "=")
    /\ \A j \in 1..Len(tol) : (j # a /\ j # b) => tol[j] \in Letters

C19_ExistsOnlyWithoutValue ==
    (build.fn # "none" /\ "tolerations" \in DOMAIN build.spec)
    => \A i \in 1..Len(build.spec.tolerations) :
         LET rule == build.spec.tolerations[i]
         IN ("operator" \in DOMAIN rule /\ rule.operator = "Exists")
            => "value" \notin DOMAIN rule

\* C20: when the resource data carry n >= 1 network interfaces, the built
\* manifest has n interfaces and n networks with interfaces[i].name =
\* networks[i].name, in input order; when they carry none, it has exactly
\* one bridged interface named default and one pod network named default.
C20_NetworksMatchInterfaces ==
    build.fn # "none"
    => LET nics == build.data.nics
           interfaces == ListAt(build.spec, "interfaces")
           networks == ListAt(build.spec, "networks")
       IN /\ Len(nics) >= 1
             => /\ Len(interfaces) = Len(nics)
                /\ Len(networks) = Len(nics)
                /\ \A i \in 1..Len(nics) :
                     /\ interfaces[i].name = nics[i].name
                     /\ networks[i].name = nics[i].name
          /\ Len(nics) = 0
             => /\ interfaces = <<[name |-> "default", binding |-> "bridge"]>>
                /\ networks = <<[name |-> "default", source |-> "pod"]>>

\* C15: delivering the same start call twice in a row with no other writer
\* (Create then Create, or Update then Update, on the framework resource)
\* is idempotent: the second delivery returns success as the first did, and
\* the store ends with the VirtualMachine present with spec.running=true.
C15_StartTwiceIdempotent ==
    LET o == op["fw"]
    IN (o.pc = "done" /\ o.again = "redelivery" /\ o.ans # "unavailable")
       => /\ ~o.err
          /\ vm.exists /\ vm.running

\* p's handler o is a Read that has returned: the Read operation itself,
\* or the Read a Create or Update of an SDK resource ends with.
ReadReturned(p, o) ==
    /\ o.pc = "done" /\ o.calls # <<>> /\ o.calls[Len(o.calls)] = "get"
    /\ o.kind = "Read" \/ (p \in SdkProcs /\ Len(o.calls) >= 2)

\* C16: in every VM resource Read (framework Read, the two SDK reads), a
\* not-found answer from get drops the resource from the caller's state (ID
\* cleared, resource removed) and returns no error, while any other get
\* failure is returned as an error and leaves the recorded state unchanged.
C16_ReadNotFoundDrops ==
    [][\A p \in Procs :
         ReadReturned(p, op'[p])
         => /\ op'[p].ans = "notfound" => (~op'[p].err /\ state'[p] = NoState)
            /\ op'[p].ans \notin {"ok", "notfound"}
               => (op'[p].err /\ state'[p] = state[p])
            /\ vm' = vm]_vars

C16_Witness ==
    \E p \in Procs :
        /\ op[p].kind = "Read" /\ op[p].pc = "done" /\ op[p].ans = "notfound"
        /\ ~op[p].err /\ state[p] = NoState

\* C17: after every successful mutating call of the framework resource
\* (Create, and Update on its create, start and stop paths) the result
\* record's identifier is <namespace>/<name> and its status is the one of
\* the just-completed transition (Created, Running or Stopped).
C17_ResultIdAndStatus ==
    LET o == op["fw"]
    IN ((FwDone("Create") \/ FwDone("Update")) /\ ~o.err /\ o.calls # <<>>)
       => /\ state["fw"].id = VMId
          /\ state["fw"].status =
               (IF o.calls[Len(o.calls)] = "create" THEN "Created"
                ELSE IF o.plan.transition = "start" THEN "Running" ELSE "Stopped")

\* C21: in createVMObject, when both PCI and GPU device requests are
\* present the manifest's hostDevices list is the PCI requests in input
\* order followed by the GPU requests in input order; when only one kind is
\* present the list is exactly that kind's requests in input order.
C21_GpuAppendedAfterPci ==
    build.fn = "createVMObject"
    => LET pci == build.data.pci
           gpu == build.data.gpu
           hostDevices == ListAt(build.spec, "hostDevices")
       IN /\ Len(hostDevices) = Len(pci) + Len(gpu)
          /\ \A i \in 1..Len(pci) :
               /\ hostDevices[i].name = pci[i].name
               /\ hostDevices[i].deviceName = pci[i].device_name
               /\ hostDevices[i] = DeviceObject(pci[i])
          /\ \A i \in 1..Len(gpu) :
               /\ hostDevices[Len(pci) + i].name = gpu[i].name
               /\ hostDevices[Len(pci) + i].deviceName = gpu[i].device_name
               /\ hostDevices[Len(pci) + i] = DeviceObject(gpu[i])

C21_Witness ==
    /\ build.fn = "createVMObject"
    /\ Len(build.data.pci) = 2 /\ Len(build.data.gpu) = 1
    /\ build.data.pci[1].name # build.data.pci[2].name
    /\ build.data.gpu[1].vendor_id = "10de"
    /\ Len(build.spec.hostDevices) = 3
    /\ build.spec.hostDevices[3].vendorId = "10de"

\* C22: every VirtualMachine manifest built for a create call carries
\* apiVersion, kind, metadata.name, metadata.namespace and metadata.labels
\* containing the managed-tag label app, whichever optional sections are
\* grafted on.
C22_ManifestShape ==
    build.fn # "none"
    => /\ build.spec.apiVersion = "kubevirt.io/v1"
       /\ build.spec.kind = "VirtualMachine"
       /\ build.spec.metadata.name = build.data.name
       /\ build.spec.metadata.namespace = build.data.namespace
       /\ "labels" \in DOMAIN build.spec.metadata
       /\ "app" \in DOMAIN build.spec.metadata.labels

ShapeFns == {"updateResourceDataFromVM", "Read", "Update"}

\* C23: for every remote object a get can return, including one in which
\* any of spec, template, domain, resources, requests, volumes or
\* creationTimestamp is missing, the Read projections and the start/stop
\* Update paths complete without panic, and the projections yield
\* absent/default values rather than an error.
C23_NoPanicOnMissingFields ==
    build.fn \in ShapeFns
    => /\ ~build.out.panic
       /\ ~build.out.err
       /\ build.fn # "Update" /\ ~Has(build.data.metadata, "creationTimestamp")
            => build.out.value.creation_timestamp = ZeroTime
       /\ build.fn = "updateResourceDataFromVM" /\ ~Has(build.data, "spec")
            => /\ build.out.value.memory = PriorD.memory
               /\ build.out.value.cpu = PriorD.cpu
               /\ build.out.value.image = PriorD.image

IdHandlers == {"Read", "Update", "Delete", "Exists"}

Malformed(p) == state[p].present /\ Len(Split(state[p].id, "/")) # 2

\* C24: in the SDK VM resources, Read, Update, Delete and Exists called
\* with an identifier that is not exactly two `/`-separated parts return a
\* validation error without issuing any gateway call and without changing
\* recorded state (nor, having made no call, the store).
C24_MalformedIdRejected ==
    [][\A p \in SdkProcs :
         (Malformed(p) /\ op'[p].pc = "done" /\ op'[p].kind \in IdHandlers)
         => /\ op'[p].err
            /\ op'[p].calls = <<>>
            /\ state' = state
            /\ vm' = vm /\ rvNext' = rvNext]_vars

C24_Witness ==
    \E p \in SdkProcs :
        /\ Malformed(p)
        /\ state[p].id = <<"/", "/">>
        /\ op[p].pc = "done" /\ op[p].kind = "Delete"
        /\ op[p].err /\ op[p].calls = <<>>
        /\ vm.exists

\* A volume that takes its cloud-init text from the overflow Secret.
RefersToSecret(volume) ==
    /\ Has(volume, "cloudInitNoCloud")
    /\ Has(volume.cloudInitNoCloud, "secretRef")
    /\ volume.cloudInitNoCloud.secretRef.name = secret.name

\* C25: the overflow Secret is created at most once and never updated: a
\* Secret create issued while the Secret exists is not accepted and leaves
\* its content as it is, and the VirtualMachine created after an
\* already-exists answer refers to that Secret, whose content is still the
\* one of the request that created it.
C25_SecretCreatedOnce ==
    [][LET o == op'["fw"]
       IN /\ (op["fw"].pc = "secret" /\ o.pc # "secret" /\ secret.exists)
             => /\ o.secretAns # "ok"
                /\ secret' = secret
          /\ (op["fw"].pc = "create" /\ o.pc = "done" /\ o.ans = "ok"
                /\ o.secretAns = "alreadyexists")
             => /\ secret.exists /\ secret' = secret
                /\ \E i \in DOMAIN vm'.volumes : RefersToSecret(vm'.volumes[i])]_vars

\* The second of two start requests with different payloads over the limit
\* has returned: the Secret holds the first payload, the VirtualMachine of
\* the second request refers to it.
C25_Witness ==
    LET o == op["fw"]
    IN /\ o.pc = "done" /\ o.secretAns = "alreadyexists" /\ o.ans = "ok" /\ ~o.err
       /\ o.again = "no"
       /\ vm.exists
       /\ \E i \in DOMAIN vm.volumes : RefersToSecret(vm.volumes[i])
       /\ NeedsSecret(o.plan.ci)
       /\ secret.exists
       /\ secret.userdata # StdEncoding(EnhancedCloudInit(o.plan.ci))
       /\ secret.userdata.decoded.wrapped # o.plan.ci.token

\* Whether the latest gateway call of a handler failed: a not-found answer
\* to a get and an already-exists answer to the Secret create are handled,
\* every other answer but ok is a failure.
CallFailed(o) ==
    LET last == o.calls[Len(o.calls)]
    IN CASE last = "get" -> o.ans \notin {"ok", "notfound"}
         [] last = "secretcreate" -> o.ans \notin {"ok", "alreadyexists"}
         [] OTHER -> o.ans # "ok"

\* C26: if any gateway call in a framework Create or Update fails (get,
\* Secret create other than already-exists, VirtualMachine create, update),
\* the call returns there with an error and does not write the result
\* record: recorded state keeps its prior value.
C26_FailureWritesNothing ==
    [][LET o == op'["fw"]
       IN (o # op["fw"] /\ o.kind \in {"Create", "Update"} /\ o.calls # <<>>
             /\ CallFailed(o))
          => /\ o.pc = "done"
             /\ o.err
             /\ state' = state]_vars

C26_Witness ==
    LET o == op["fw"]
    IN /\ o.pc = "done" /\ o.kind = "Update" /\ o.err
       /\ o.calls = <<"get", "update">> /\ o.ans = "unavailable"
       /\ state["fw"].present /\ state["fw"].transition # o.plan.transition

\* C30: no operation of the framework VM resource deletes or updates an
\* overflow Secret: once created it stays in the store with its original
\* content, in particular across a successful Delete of the VirtualMachine.
C30_SecretNeverRemoved ==
    [][secret.exists => secret' = secret]_vars

C30_Witness ==
    LET o == op["fw"]
    IN /\ o.pc = "done" /\ o.kind = "Delete" /\ ~o.err
       /\ o.calls = <<"delete">> /\ o.ans = "ok"
       /\ o.pre.exists
       /\ \E i \in DOMAIN o.pre.volumes : RefersToSecret(o.pre.volumes[i])
       /\ ~vm.exists
       /\ ~state["fw"].present
       /\ secret.exists

\* C27: when two start Update calls for the same absent identity interleave
\* in any order, at most one VirtualMachine create succeeds: a create issued
\* once the object is in the store is answered already exists (or fails
\* otherwise), that call returns an error and records nothing, and the
\* store keeps the one object the first create put there.
C27_OneCreateWins ==
    [][\A p \in FwHosts :
         (op[p].pc = "create" /\ op'[p].pc = "done")
         => /\ op'[p].ans = "ok" => (~vm.exists /\ vm'.exists)
            /\ vm.exists
               => /\ op'[p].ans \in {"alreadyexists", "unavailable"}
                  /\ op'[p].err
                  /\ vm' = vm
                  /\ state'[p] = state[p]]_vars

C27_Witness ==
    /\ op["fw"].pc = "done" /\ op["fw"].kind = "Update"
    /\ op["fw"].plan.transition = "start"
    /\ op["fw"].calls = <<"get", "create">>
    /\ ~op["fw"].fetched.exists
    /\ op["fw"].ans = "alreadyexists" /\ op["fw"].err
    /\ vm.exists
    /\ state["fwB"].status = "Created"
    /\ state["fw"].status # "Created"

\* C28: whenever the remote VirtualMachine exists, the framework Read
\* records vm_status Running and workspace_transition start, whatever
\* spec.running and the prior recorded transition are; so a Read after a
\* successful Update(stop) records Running/start while the remote object
\* has running false.
C28_ReadAlwaysRunning ==
    LET o == op["fw"]
    IN (o.pc = "done" /\ o.kind = "Read" /\ o.ans = "ok")
       => /\ o.fetched.exists
          /\ ~o.err
          /\ state["fw"].present
          /\ state["fw"].status = "Running"
          /\ state["fw"].transition = "start"

C28_Witness ==
    LET o == op["fw"]
    IN /\ o.pc = "done" /\ o.kind = "Read" /\ o.ans = "ok"
       /\ o.prior = "stop"
       /\ vm.exists /\ ~vm.running /\ ~o.fetched.running
       /\ state["fw"].status = "Running" /\ state["fw"].transition = "start"

\* C29: Create of the SDK resources is the create call followed by a
\* read-back; if another actor deletes the VirtualMachine between the two,
\* the read-back's not-found clears the ID and Create still returns success.
C29_CreateReadBackNotFound ==
    \A p \in SdkProcs :
        (op[p].pc = "done" /\ op[p].kind = "Create"
           /\ op[p].calls = <<"create", "get">> /\ op[p].ans = "notfound")
        => /\ ~op[p].err
           /\ ~state[p].present
           /\ state[p].id = <<>>
           /\ ~op[p].fetched.exists

C29_Witness ==
    \E p \in SdkProcs :
        /\ op[p].pc = "done" /\ op[p].kind = "Create"
        /\ op[p].calls = <<"create", "get">> /\ op[p].ans = "notfound"
        /\ ~op[p].err /\ state[p] = NoState
        /\ op[p].sent.exists
        /\ ~vm.exists

====
